---- MODULE Spec2Model ----
(***************************************************************************)
(* Stadium Finder (src/Stadium-Finder.py): a Streamlit script that is run  *)
(* from top to bottom on every widget interaction.  The facility table is  *)
(* a sequence of rows (a DataFrame in row order); every row carries its    *)
(* index label, which filtering, sorting and head() keep.                  *)
(*                                                                         *)
(* Four specifications share the variables:                                *)
(*   SpecFilterCore  one call of apply_selection_filters (lines 69-101)    *)
(*                   on arguments drawn by its initial state;              *)
(*   SpecRank        the search proper (lines 226-237: filter, distances,  *)
(*                   radius, sort, head) on a table, a reference point, a  *)
(*                   radius and a limit drawn by its initial state;        *)
(*   Spec, SpecFilter  sessions of the whole script.  One action is one    *)
(*                   run of the script: a run that reaches its end, or a   *)
(*                   run that Streamlit abandons at one of its st.* calls  *)
(*                   or st.session_state accesses because another widget   *)
(*                   event has arrived (the script thread raises there;    *)
(*                   that statement and those after it are not executed,   *)
(*                   and what earlier runs left on the screen below that   *)
(*                   point stays there).                                   *)
(*                                                                         *)
(* Geography: all model points lie on one meridian (longitude 0).  The     *)
(* latitude k of the model is the double math.degrees(k / 6371.0), k       *)
(* kilometres of arc north of the equator.  A distance is the double the   *)
(* code computes, written km + ulps * 2^-53 as the record                  *)
(* [km |-> km, ulps |-> ulps]: 0.9999999999999998 is [km |-> 1,            *)
(* ulps |-> -2] and 10.000000000000002 is [km |-> 10, ulps |-> 16].        *)
(***************************************************************************)
EXTENDS Integers, Sequences, FiniteSets, TLC

VARIABLES
    stadiums,          \* line 28: the loaded facility table
    address_input,     \* line 179: text input
    type_choice,       \* line 182: selectbox
    nature_choice,     \* line 183: selectbox
    surface_select,    \* line 186: multiselect value (a list; order is irrelevant to isin)
    activity_choice,   \* line 191: selectbox
    transport_choice,  \* line 192: selectbox
    radius,            \* line 195: slider
    max_res,           \* line 196: slider
    search_btn,        \* line 198: True only in the run the click triggered
    search_performed,  \* lines 204-217: st.session_state.search_performed
    ref,               \* line 220: what geocode_address returned in this run
    df_filtered,       \* line 226: result of apply_selection_filters in this run
    results,           \* lines 234-237: ranked results of this run
    message,           \* the st.warning/error/info/success the run has shown, or
                       \* "interrupted" when it was abandoned before showing one
    calls,             \* the computations the run invoked
    abandoned,         \* whether the run was abandoned before its end
    map_shown          \* line 246: whether a st_folium map is on the screen

vars == <<stadiums, address_input, type_choice, nature_choice, surface_select,
          activity_choice, transport_choice, radius, max_res, search_btn,
          search_performed, ref, df_filtered, results, message, calls,
          abandoned, map_shown>>

-----------------------------------------------------------------------------
(* Bounds of the model *)

MaxRows == 3         \* rows of the short tables of SpecRank
MaxLat == 2          \* latitudes 0..MaxLat of their rows
LongRows == 18       \* rows of the long tables of SpecRank
MaxFilterRows == 2   \* rows of the tables of SpecFilterCore and SpecFilter
MaxSessionRows == 2  \* rows of the tables of Spec

(* Slider settings, lines 195-196 *)
MinRadius == 1
MaxRadius == 50
DefaultRadius == 10
MinResults == 1
MaxResults == 20
DefaultResults == 5

-----------------------------------------------------------------------------
(* Values *)

NoPref == "No preference"
NaN == "<NaN>"       \* an empty Excel cell
NotFound == [found |-> FALSE]                       \* (None, None)
Found(lat) == [found |-> TRUE, lat |-> lat, lon |-> 0]

\* lines 31-37
list_trans == <<"No preference", "Autre", "Avion", "Bateau", "Bus", "Métro",
                "Pas de desserte", "Train", "Tramway">>
list_type_name == <<"No preference", "Aire de fitness/street workout", "Arènes",
                    "Autres équipements divers",
                    "But/Panier isolé de sport collectif",
                    "Multisports/City-stades", "Terrain de foot 5x5",
                    "Terrain de football", "Terrain de futsal extérieur",
                    "Terrain de soccer", "Terrain mixte">>
list_nature == <<"No preference", "Découvert", "Découvrable", "Extérieur couvert",
                 "Intérieur", "Site artificiel">>
list_sol == <<"No preference", "Bitume", "Béton", "Gazon naturel",
              "Gazon synthétique", "Hybride", "Sable", "Synthétique">>
list_aps_football == <<"No preference", "Football / Football en salle (Futsal)",
                       "Football Américain / Flag">>

Min(a, b) == IF a <= b THEN a ELSE b
Max(a, b) == IF a >= b THEN a ELSE b
Abs(x) == IF x >= 0 THEN x ELSE -x

\* Doubles near whole kilometres: the value of an integer, and <= and < on
\* doubles (|ulps| * 2^-53 is far below 1, so km decides first).
Km(n) == [km |-> n, ulps |-> 0]
Le(a, b) == a.km < b.km \/ (a.km = b.km /\ a.ulps <= b.ulps)
Lt(a, b) == a.km < b.km \/ (a.km = b.km /\ a.ulps < b.ulps)

\* The characters of the texts that take part in substring search.
Chars(s) ==
  CASE s = "No preference" -> <<"N", "o", " ", "p", "r", "e", "f", "e", "r", "e", "n", "c", "e">>
    [] s = "Autre" -> <<"A", "u", "t", "r", "e">>
    [] s = "Avion" -> <<"A", "v", "i", "o", "n">>
    [] s = "Bateau" -> <<"B", "a", "t", "e", "a", "u">>
    [] s = "Bus" -> <<"B", "u", "s">>
    [] s = "Métro" -> <<"M", "é", "t", "r", "o">>
    [] s = "Pas de desserte" -> <<"P", "a", "s", " ", "d", "e", " ", "d", "e", "s", "s", "e", "r", "t", "e">>
    [] s = "Train" -> <<"T", "r", "a", "i", "n">>
    [] s = "Tramway" -> <<"T", "r", "a", "m", "w", "a", "y">>
    [] s = "nan" -> <<"n", "a", "n">>
    [] s = "Bus, Tramway" -> <<"B", "u", "s", ",", " ", "T", "r", "a", "m", "w", "a", "y">>
    [] s = "an" -> <<"a", "n">>
    [] s = "." -> <<".">>

-----------------------------------------------------------------------------
(* DataFrame operations used by the script (pandas) *)

\* df[mask], the rows whose mask is true, in row order and with their index
\* labels, is SelectSeq(df, mask).

\* df.assign(distance_km=distances): a new frame, each row with the new column.
assign_distance(df, distances) ==
    [i \in 1..Len(df) |-> ("distance_km" :> distances[i]) @@ df[i]]

\* The cutoff written with < instead of <=.
query_within_strict(df, r) == SelectSeq(df, LAMBDA row : Lt(row.distance_km, Km(r)))

\* .query("distance_km <= @radius"): the float64 column against the integer
\* of the slider
query_within(df, r) == SelectSeq(df, LAMBDA row : Le(row.distance_km, Km(r)))

RemoveAt(df, i) == SubSeq(df, 1, i - 1) \o SubSeq(df, i + 1, Len(df))

\* The sort written with ascending=False.
RECURSIVE sort_values_descending(_)
sort_values_descending(df) ==
    IF df = <<>> THEN {<<>>}
    ELSE UNION {{<<df[i]>> \o rest : rest \in sort_values_descending(RemoveAt(df, i))} :
                  i \in {k \in 1..Len(df) :
                            \A j \in 1..Len(df) : Le(df[j].distance_km, df[k].distance_km)}}

\* .sort_values("distance_km"): ascending, with the default kind="quicksort",
\* which is not a stable sort: the order of rows of equal key is whatever the
\* numpy build produces.  The scalar argsort sorts a run of at most 17
\* elements by insertion, which leaves equal keys in the order of the frame,
\* and partitions a longer frame around pivots, which moves equal keys past
\* each other; a build with the vectorised argsort is bound to neither.  The
\* operator is the set of the outcomes a build can produce: every arrangement
\* of the rows in non-decreasing order of the key.
RECURSIVE sort_values(_)
sort_values(df) ==
    IF df = <<>> THEN {<<>>}
    ELSE UNION {{<<df[i]>> \o rest : rest \in sort_values(RemoveAt(df, i))} :
                  i \in {k \in 1..Len(df) :
                            \A j \in 1..Len(df) : Le(df[k].distance_km, df[j].distance_km)}}

\* head() one row short.
head_off_by_one(df, n) == SubSeq(df, 1, Min(n, Len(df)) - 1)

\* .head(n): the first n rows; for negative n, all rows but the last -n.
head(df, n) ==
    IF n >= 0 THEN SubSeq(df, 1, Min(n, Len(df)))
              ELSE SubSeq(df, 1, Max(0, Len(df) + n))

-----------------------------------------------------------------------------
(* LOGIC FUNCTIONS, lines 43-101 *)

\* The geocoding service: the latitude it knows for an address, if any.
GeocoderDirectory(address) ==
    CASE address = "10 rue de la Paix, Paris" -> Found(11)
      [] address = "Vieux-Port, Marseille" -> Found(10)
      [] address = "Place Bellecour, Lyon" -> Found(0)
      [] OTHER -> NotFound

\* geocode_address: (lat, lon) of the first feature; (None, None) when there
\* is no feature or when the request raises (timeout, HTTP error).  The set
\* of the outcomes a call can have.
geocode_address(address) == {GeocoderDirectory(address), NotFound}

\* What lines 60-67 return in float64 for two points of the meridian at
\* latitudes 0..18: R * c for the point at latitude i from the point at
\* latitude j is |i - j| + RoundingUlps[j + 1][i + 1] * 2^-53 km (IEEE 754
\* double arithmetic with the C library's sin, cos, sqrt and atan2; dlon = 0,
\* so a = sin(dlat/2)**2).  The distance of a point from itself is 0.0, and
\* two points at the same latitude get the same double.  A numpy build whose
\* sin or arctan2 rounds otherwise changes last bits of the table only.
RoundingUlps ==
    <<<<  0,  -2,  -2,   0,  -4,   0,   0,   0,  -8,  16,  16,   0,  16, -16, -16,   0, -16,   0,  32>>,
      << -2,   0,  -2,   0,   0,   0,   0,   8,  -8,   0,   0,   0,   0,   0,  16, -16,   0,   0,  32>>,
      << -2,  -2,   0,  -1,  -2,   4,   0,   8,   0,  16,   0,   0,  16,   0,  32, -16, -48,   0,   0>>,
      <<  0,   0,  -1,   0,  -4,   0,   0,   0,  -8,  16,   0,  -8,   0,   0,   0,  16, -16, -16,  32>>,
      << -4,   0,  -2,  -4,   0,   2,   0,   8,  -4,  16,   8,  -8,   0,   0,  32,   0,  16,  16,   0>>,
      <<  0,   0,   4,   0,   2,   0,  -4,   0,  -8,   8,   0,  -8,  -8, -16,   0,   0, -16,  16,  16>>,
      <<  0,   0,   0,   0,   0,  -4,   0,   2,  -4,  12,   0,  -8,   0,  -8,   0,   0,   0,   0,  32>>,
      <<  0,   8,   8,   0,   8,   0,   2,   0, -10,   8,   0,  -8,  -8, -16,   0,  -8, -16,  16,  16>>,
      << -8,  -8,   0,  -8,  -4,  -8,  -4, -10,   0,  14,   8,   0,   0,  -8,  16,   0,  -8,  16,  48>>,
      << 16,   0,  16,  16,  16,   8,  12,   8,  14,   0, -10, -16, -12, -20,  -8, -16, -24,  -8,  16>>,
      << 16,   0,   0,   0,   8,   0,   0,   0,   8, -10,   0, -10,  -4, -12,   0,  -8, -16,   0,  16>>,
      <<  0,   0,   0,  -8,  -8,  -8,  -8,  -8,   0, -16, -10,   0,   2,  -4,  12,   0,  -8,  16,  32>>,
      << 16,   0,  16,   0,   0,  -8,   0,  -8,   0, -12,  -4,   2,   0, -10,   8,   0,  -8,   8,  24>>,
      <<-16,   0,   0,   0,   0, -16,  -8, -16,  -8, -20, -12,  -4, -10,   0,  14,   8,   0,  16,  32>>,
      <<-16,  16,  32,   0,  32,   0,   0,   0,  16,  -8,   0,  12,   8,  14,   0, -10, -16,   0,  16>>,
      <<  0, -16, -16,  16,   0,   0,   0,  -8,   0, -16,  -8,   0,   0,   8, -10,   0, -10,   8,  24>>,
      <<-16,   0, -48, -16,  16, -16,   0, -16,  -8, -24, -16,  -8,  -8,   0, -16, -10,   0,  14,  32>>,
      <<  0,   0,   0, -16,  16,  16,   0,  16,  16,  -8,   0,  16,   8,  16,   0,   8,  14,   0,  14>>,
      << 32,  32,   0,  32,   0,  16,  32,  16,  48,  16,  16,  32,  24,  32,  16,  24,  32,  14,   0>>>>

\* haversine_vectorized for points of the meridian: the float64 array R * c.
haversine_vectorized(lat, lon, latitudes, longitudes) ==
    [i \in 1..Len(latitudes) |->
        [km |-> Abs(latitudes[i] - lat),
         ulps |-> RoundingUlps[lat + 1][latitudes[i] + 1]]]

\* .astype(str): a missing cell becomes the text "nan" (object columns, as
\* read_excel gives them).  A build whose astype(str) keeps the cell missing
\* gives False for it by na=False; both agree for every option of list_trans.
astype_str(cell) == IF cell = NaN THEN "nan" ELSE cell

\* re.match: the pattern is looked for at the start of the text only.
re_match(pat, text) ==
    /\ Len(pat) <= Len(text)
    /\ \A j \in 1..Len(pat) : pat[j] = "." \/ pat[j] = text[j]

\* re.search for a pattern of literal characters and ".", the regular
\* expression wildcard (str.contains has regex=True by default).
re_search(pat, text) ==
    \E i \in 1..(Len(text) - Len(pat) + 1) :
        \A j \in 1..Len(pat) : pat[j] = "." \/ pat[j] = text[i + j - 1]

\* Series.str.contains(pat, na=False) for one cell.
str_contains(cell, pat) ==
    IF cell = NaN THEN FALSE ELSE re_search(Chars(pat), Chars(cell))

\* lines 77-82
transport_filter(df, transport) ==
    IF transport # NoPref
    THEN SelectSeq(df, LAMBDA row :
             str_contains(astype_str(row.inst_trans_type), transport))
    ELSE df

\* The equality filter without the "No preference" test.
equality_filter_unguarded(df, column, value) ==
    SelectSeq(df, LAMBDA row : row[column] = value)

\* lines 93-94, one turn of the loop over the dropdown filters
equality_filter(df, column, value) ==
    IF value # NoPref
    THEN SelectSeq(df, LAMBDA row : row[column] = value)
    ELSE df

\* lines 97-99.  surface is <<"str", text>> or <<"list", set of texts>>.
surface_filter(df, surface) ==
    IF /\ ~(surface[1] = "str" /\ surface[2] = NoPref)
       /\ surface[1] = "list"
       /\ Cardinality(surface[2]) > 0
    THEN SelectSeq(df, LAMBDA row : row.equip_sol \in surface[2])
    ELSE df

\* Each dropdown filter applied to the source instead of to what the filters
\* before it have left.
apply_selection_filters_last_wins(dataset_source, transport, equip_type, nature, surface, activity) ==
    LET f1 == transport_filter(dataset_source, transport)
        f2 == IF equip_type # NoPref
              THEN equality_filter(dataset_source, "equip_type_name", equip_type) ELSE f1
        f3 == IF nature # NoPref
              THEN equality_filter(dataset_source, "equip_nature", nature) ELSE f2
        f4 == IF activity # NoPref
              THEN equality_filter(dataset_source, "aps_name", activity) ELSE f3
    IN  [dataset_source |-> dataset_source,
         dataset_filtered |-> surface_filter(f4, surface)]

\* The rows dropped from the caller's frame itself (no copy, inplace=True).
apply_selection_filters_inplace(dataset_source, transport, equip_type, nature, surface, activity) ==
    LET f1 == transport_filter(dataset_source, transport)
        f2 == equality_filter(f1, "equip_type_name", equip_type)
        f3 == equality_filter(f2, "equip_nature", nature)
        f4 == equality_filter(f3, "aps_name", activity)
    IN  [dataset_source |-> surface_filter(f4, surface),
         dataset_filtered |-> surface_filter(f4, surface)]

\* lines 69-101.  The function works on a copy (line 74) and every df[mask]
\* is a new frame; dataset_source is the caller's frame as the call leaves it.
apply_selection_filters(dataset_source, transport, equip_type, nature, surface, activity) ==
    LET f1 == transport_filter(dataset_source, transport)
        f2 == equality_filter(f1, "equip_type_name", equip_type)
        f3 == equality_filter(f2, "equip_nature", nature)
        f4 == equality_filter(f3, "aps_name", activity)
    IN  [dataset_source |-> dataset_source,
         dataset_filtered |-> surface_filter(f4, surface)]

-----------------------------------------------------------------------------
(* The script, lines 176-252 *)

\* lines 188-189
surface_choice_of(selected) ==
    IF selected = {} THEN <<"str", NoPref>> ELSE <<"list", selected>>

\* The search run only in the run of the click, no session flag.
flag_from_button_only(flag, btn) == btn

\* lines 204-208: the session flag after the button has been looked at
flag_after_button(flag, btn) == flag \/ btn

\* lines 233-237: the outcomes of the rank/select step
rank_select(filtered, lat, lon, r, n) ==
    LET distances == haversine_vectorized(lat, lon,
                        [i \in 1..Len(filtered) |-> filtered[i].latitude],
                        [i \in 1..Len(filtered) |-> filtered[i].longitude])
    IN  {head(s, n) : s \in sort_values(query_within(assign_distance(filtered, distances), r))}

\* Where a run can be abandoned.  Streamlit looks for a pending widget event
\* at every st.* call and at every access to st.session_state of the running
\* script and, when there is one, raises there to start the next run:
\*   "widgets": at a call of lines 11-198 or at the accesses of lines 204-208,
\*              before the session flag is written;
\*   "display": at the read of line 214 or at the first call after it
\*              (lines 216, 219, 252), the flag written, nothing shown;
\*   "reset":   at the write of line 217, the warning of line 216 shown;
\*   "outcome": at the call that would show the outcome of the search
\*              (lines 223, 230, 240, 242), the search computed;
\*   "map":     at st_folium (line 246), st.success shown, no map drawn;
\*   "details": at the expander or the dataframe (lines 249, 250), the map
\*              drawn;
\*   "spinner": where the with block of line 219 is left and the spinner is
\*              removed, everything the run shows being on the screen.
\* With "end" the run is not abandoned.
Stops == {"widgets", "display", "reset", "outcome", "map", "details", "spinner",
          "end"}

\* One run of the script with the widget values of that run, abandoned at
\* stop, a point the run comes to.
ScriptRun(addr, ty, na, su, ac, tr, r, m, btn, stop) ==
    LET flag == flag_after_button(search_performed, btn)
        flt == apply_selection_filters(stadiums, tr, ty, na, surface_choice_of(su), ac)
        \* abandoned before any message: what is on the screen stays
        nothing_shown == /\ message' = "interrupted"
                         /\ abandoned' = TRUE
                         /\ UNCHANGED map_shown
        \* abandoned after the message: the map of an earlier run stays
        left_after(text) == /\ message' = text
                            /\ abandoned' = TRUE
                            /\ UNCHANGED map_shown
        \* the run shows text and ends; the map of an earlier run is cleared
        ends_with(text) == /\ message' = text
                           /\ abandoned' = FALSE
                           /\ map_shown' = FALSE
        \* one message inside the spinner block, then the end of the run
        shows(text) == CASE stop = "outcome" -> nothing_shown
                         [] stop = "spinner" -> left_after(text)
                         [] OTHER -> ends_with(text)
        no_search == /\ UNCHANGED stadiums
                     /\ ref' = NotFound /\ df_filtered' = <<>> /\ results' = <<>>
                     /\ calls' = {}
    IN
    /\ address_input' = addr
    /\ type_choice' = ty
    /\ nature_choice' = na
    /\ surface_select' = su
    /\ activity_choice' = ac
    /\ transport_choice' = tr
    /\ radius' = r
    /\ max_res' = m
    /\ search_btn' = btn
    /\ IF stop = "widgets"
       THEN \* lines 204-208 are not executed
            /\ nothing_shown
            /\ UNCHANGED search_performed
            /\ no_search
       ELSE IF ~flag
       THEN \* lines 214, 252
            /\ stop \in {"display", "end"}
            /\ IF stop = "display" THEN nothing_shown ELSE ends_with("set_criteria")
            /\ search_performed' = FALSE
            /\ no_search
       ELSE IF addr = ""
       THEN \* lines 214-217
            /\ stop \in {"display", "reset", "end"}
            /\ CASE stop = "display" -> nothing_shown /\ search_performed' = TRUE
                 [] stop = "reset" -> left_after("enter_address") /\ search_performed' = TRUE
                 [] OTHER -> ends_with("enter_address") /\ search_performed' = FALSE
            /\ no_search
       ELSE IF stop = "display"
       THEN \* lines 214, 219
            /\ nothing_shown
            /\ search_performed' = TRUE
            /\ no_search
       ELSE \E geo \in geocode_address(addr) :
            /\ stop \in {"outcome", "map", "details", "spinner", "end"}
            /\ search_performed' = TRUE
            /\ ref' = geo
            /\ IF ~geo.found
               THEN \* line 223
                    /\ stop \notin {"map", "details"}
                    /\ shows("address_not_found")
                    /\ UNCHANGED stadiums
                    /\ df_filtered' = <<>> /\ results' = <<>>
                    /\ calls' = {"geocode"}
               ELSE /\ stadiums' = flt.dataset_source
                    /\ df_filtered' = flt.dataset_filtered
                    /\ IF flt.dataset_filtered = <<>>
                       THEN \* line 230
                            /\ stop \notin {"map", "details"}
                            /\ shows("no_criteria_match")
                            /\ results' = <<>>
                            /\ calls' = {"geocode", "filter"}
                       ELSE \E res \in rank_select(flt.dataset_filtered, geo.lat, geo.lon, r, m) :
                            /\ results' = res
                            /\ calls' = {"geocode", "filter", "haversine", "rank"}
                            /\ IF res = <<>>
                               THEN \* line 240
                                    /\ stop \notin {"map", "details"}
                                    /\ shows("out_of_radius")
                               ELSE \* lines 242-250
                                    CASE stop = "outcome" -> nothing_shown
                                      [] stop = "map" -> left_after("results")
                                      [] stop \in {"details", "spinner"} ->
                                             /\ message' = "results"
                                             /\ abandoned' = TRUE
                                             /\ map_shown' = TRUE
                                      [] OTHER -> /\ message' = "results"
                                                  /\ abandoned' = FALSE
                                                  /\ map_shown' = TRUE

\* The search proper, lines 226-237, for a type criterion, a resolved
\* reference point, a radius and a limit.
Search(ty, point, r, m) ==
    LET flt == apply_selection_filters(stadiums, transport_choice, ty,
                   nature_choice, surface_choice_of(surface_select), activity_choice)
    IN  /\ type_choice' = ty
        /\ ref' = point
        /\ radius' = r
        /\ max_res' = m
        /\ stadiums' = flt.dataset_source
        /\ df_filtered' = flt.dataset_filtered
        /\ IF flt.dataset_filtered = <<>>
           THEN /\ results' = <<>>
                /\ calls' = {"filter"}
           ELSE \E res \in rank_select(flt.dataset_filtered, point.lat, point.lon, r, m) :
                /\ results' = res
                /\ calls' = {"filter", "haversine", "rank"}
        /\ UNCHANGED <<address_input, nature_choice, surface_select,
                       activity_choice, transport_choice, search_btn,
                       search_performed, message, abandoned, map_shown>>

\* One call apply_selection_filters(stadiums, ...), line 226, with the
\* criteria of the state; it is made once.
CallFilter ==
    LET flt == apply_selection_filters(stadiums, transport_choice, type_choice,
                   nature_choice, surface_choice_of(surface_select), activity_choice)
    IN  /\ calls = {}
        /\ stadiums' = flt.dataset_source
        /\ df_filtered' = flt.dataset_filtered
        /\ calls' = {"filter"}
        /\ UNCHANGED <<address_input, type_choice, nature_choice, surface_select,
                       activity_choice, transport_choice, radius, max_res,
                       search_btn, search_performed, ref, results, message,
                       abandoned, map_shown>>

-----------------------------------------------------------------------------
(* Facility tables *)

Football == "Terrain de football"
CityStade == "Multisports/City-stades"
Futsal == "Football / Football en salle (Futsal)"

Row(i, ty, na, sol, aps, tr, lat) ==
    [index |-> i, equip_type_name |-> ty, equip_nature |-> na, equip_sol |-> sol,
     aps_name |-> aps, inst_trans_type |-> tr, latitude |-> lat, longitude |-> 0]

\* The ways of listing n facilities of different kinds.
Arrangements(kinds, n) ==
    {k \in [1..n -> kinds] : \A a, b \in 1..n : a # b => k[a] # k[b]}

PlacedTables(kinds, rows) ==
    UNION {{[i \in 1..n |-> Row(i - 1, k[i][1], "Découvert", "Gazon naturel",
                                 Futsal, "Bus", k[i][2])] :
               k \in Arrangements(kinds, n)} : n \in 1..rows}

\* Short tables of SpecRank: a football ground at any latitude and a
\* city-stade at latitude 1, the place of one of the football grounds.
RankRowKinds == {<<Football, lat>> : lat \in 0..MaxLat} \cup {<<CityStade, 1>>}
RankTables == PlacedTables(RankRowKinds, MaxRows)

\* Long tables of SpecRank: football grounds from south to north, one per
\* latitude, and a last one at the place of an earlier one.
LongTables ==
    {[i \in 1..LongRows |->
         Row(i - 1, Football, "Découvert", "Gazon naturel", Futsal, "Bus",
             IF i < LongRows THEN i - 1 ELSE twin)] : twin \in 1..2}

\* Tables of Spec.
SessionRowKinds == {<<Football, 0>>, <<Football, 1>>, <<CityStade, 1>>}
SessionTables == PlacedTables(SessionRowKinds, MaxSessionRows)

\* Tables of SpecFilterCore and SpecFilter: rows differ in their attributes.
FilterRowKinds ==
    {<<Football, "Découvert", "Gazon naturel", Futsal, "Bus, Tramway">>,
     <<CityStade, "Intérieur", "Bitume", Futsal, "Métro">>,
     <<NaN, NaN, NaN, NaN, NaN>>}
FilterTables ==
    UNION {{[i \in 1..n |-> Row(i - 1, k[i][1], k[i][2], k[i][3], k[i][4], k[i][5], 0)] :
               k \in Arrangements(FilterRowKinds, n)} : n \in 1..MaxFilterRows}

-----------------------------------------------------------------------------
(* Widget values the model explores *)

\* The sliders at their minimum and at their default; the radius also at its
\* maximum in SpecRank.
RadiusStops == {r \in {MinRadius, DefaultRadius} : MinRadius <= r /\ r <= MaxRadius}
ResultStops == {m \in {MinResults, DefaultResults} : MinResults <= m /\ m <= MaxResults}
RankRadiusStops == RadiusStops \cup {MaxRadius}

\* The transport options of the selectbox, and two more texts the function
\* can be called with.
TransportOptions == {list_trans[i] : i \in 1..Len(list_trans)}
TransportTexts == TransportOptions \cup {"an", "."}

\* The surfaces selected: none, one, two.
SurfaceStops == {{}, {"Bitume"}, {"Bitume", "Gazon naturel"}}

\* What the sessions set in the transport selectbox and in the surface
\* multiselect.
SessionTransportStops == {list_trans[1], "Bus"}
SessionSurfaceStops == {{}, {"Bitume"}}

Addresses == {"", "Place Bellecour, Lyon", "Vieux-Port, Marseille",
              "10 rue de la Paix, Paris"}

\* Nothing has run yet.
NoRunYet ==
    /\ search_btn = FALSE
    /\ search_performed = FALSE
    /\ df_filtered = <<>>
    /\ results = <<>>
    /\ message = "set_criteria"
    /\ calls = {}
    /\ abandoned = FALSE
    /\ map_shown = FALSE

\* The first run of a session: every widget at its default, no click yet.
FirstRun ==
    /\ address_input = ""
    /\ type_choice = list_type_name[1]
    /\ nature_choice = list_nature[1]
    /\ surface_select = {}
    /\ activity_choice = list_aps_football[1]
    /\ transport_choice = list_trans[1]
    /\ radius = DefaultRadius
    /\ max_res = DefaultResults
    /\ ref = NotFound
    /\ NoRunYet

-----------------------------------------------------------------------------
(* Runs: each widget interaction reruns the script *)

SetAddress(D) ==
    \E v \in D \ {address_input}, stop \in Stops :
        ScriptRun(v, type_choice, nature_choice, surface_select, activity_choice,
                  transport_choice, radius, max_res, FALSE, stop)
SetType(D) ==
    \E v \in D \ {type_choice}, stop \in Stops :
        ScriptRun(address_input, v, nature_choice, surface_select, activity_choice,
                  transport_choice, radius, max_res, FALSE, stop)
SetNature(D) ==
    \E v \in D \ {nature_choice}, stop \in Stops :
        ScriptRun(address_input, type_choice, v, surface_select, activity_choice,
                  transport_choice, radius, max_res, FALSE, stop)
SetSurface(D) ==
    \E v \in D \ {surface_select}, stop \in Stops :
        ScriptRun(address_input, type_choice, nature_choice, v, activity_choice,
                  transport_choice, radius, max_res, FALSE, stop)
SetActivity(D) ==
    \E v \in D \ {activity_choice}, stop \in Stops :
        ScriptRun(address_input, type_choice, nature_choice, surface_select, v,
                  transport_choice, radius, max_res, FALSE, stop)
SetTransport(D) ==
    \E v \in D \ {transport_choice}, stop \in Stops :
        ScriptRun(address_input, type_choice, nature_choice, surface_select,
                  activity_choice, v, radius, max_res, FALSE, stop)
SetRadius ==
    \E v \in RadiusStops \ {radius}, stop \in Stops :
        ScriptRun(address_input, type_choice, nature_choice, surface_select,
                  activity_choice, transport_choice, v, max_res, FALSE, stop)
SetMaxRes ==
    \E v \in ResultStops \ {max_res}, stop \in Stops :
        ScriptRun(address_input, type_choice, nature_choice, surface_select,
                  activity_choice, transport_choice, radius, v, FALSE, stop)
PressSearch ==
    \E stop \in Stops :
        ScriptRun(address_input, type_choice, nature_choice, surface_select,
                  activity_choice, transport_choice, radius, max_res, TRUE, stop)
\* st_folium reruns the script when the map on the screen is panned or
\* clicked, be it the map of this run or the one an earlier run has left.
MapInteraction ==
    /\ map_shown
    /\ \E stop \in Stops :
           ScriptRun(address_input, type_choice, nature_choice, surface_select,
                     activity_choice, transport_choice, radius, max_res, FALSE, stop)

\* The session over tables that differ in place and type.
Init == stadiums \in SessionTables /\ FirstRun
Next ==
    \/ SetAddress(Addresses)
    \/ SetType({NoPref, Football})
    \/ SetRadius
    \/ SetMaxRes
    \/ PressSearch
    \/ MapInteraction
Spec == Init /\ [][Next]_vars

\* The session over tables that differ in their attributes.
InitFilter == stadiums \in FilterTables /\ FirstRun
NextFilter ==
    \/ SetAddress({"", "Place Bellecour, Lyon"})
    \/ SetType({NoPref, Football})
    \/ SetNature({NoPref, "Découvert"})
    \/ SetSurface(SessionSurfaceStops)
    \/ SetActivity({NoPref, Futsal})
    \/ SetTransport(SessionTransportStops)
    \/ PressSearch
    \/ MapInteraction
SpecFilter == InitFilter /\ [][NextFilter]_vars

\* Searches one after the other on a table, for every type criterion,
\* reference point, radius and limit of the bounds.
Points == {GeocoderDirectory(a) : a \in Addresses \ {""}}
InitRank == stadiums \in RankTables \cup LongTables /\ FirstRun
NextRank ==
    \E ty \in {NoPref, Football}, point \in Points, r \in RankRadiusStops,
       m \in ResultStops : Search(ty, point, r, m)
SpecRank == InitRank /\ [][NextRank]_vars

\* The filter for every table and every combination of criteria of the
\* bounds.
InitFilterCore ==
    /\ stadiums \in FilterTables
    /\ address_input = ""
    /\ type_choice \in {NoPref, Football}
    /\ nature_choice \in {NoPref, "Découvert"}
    /\ surface_select \in SurfaceStops
    /\ activity_choice \in {NoPref, Futsal}
    /\ transport_choice \in TransportTexts
    /\ radius = DefaultRadius
    /\ max_res = DefaultResults
    /\ ref = NotFound
    /\ NoRunYet
NextFilterCore == CallFilter
SpecFilterCore == InitFilterCore /\ [][NextFilterCore]_vars

-----------------------------------------------------------------------------
(* What the specification says a search should compute, stated without the  *)
(* operators above                                                          *)

IsSubstring(pat, text) ==
    \E i \in 1..(Len(text) - Len(pat) + 1) :
        \A j \in 1..Len(pat) : text[i + j - 1] = pat[j]

MeetsTransport(row, t) ==
    t = NoPref \/ (/\ row.inst_trans_type # NaN
                   /\ IsSubstring(Chars(t), Chars(row.inst_trans_type)))
MeetsType(row, v) == v = NoPref \/ row.equip_type_name = v
MeetsNature(row, v) == v = NoPref \/ row.equip_nature = v
MeetsActivity(row, v) == v = NoPref \/ row.aps_name = v
MeetsSurface(row, sel) == sel = {} \/ row.equip_sol \in sel

MeetsOthers(row) ==
    /\ MeetsType(row, type_choice)
    /\ MeetsNature(row, nature_choice)
    /\ MeetsActivity(row, activity_choice)
    /\ MeetsSurface(row, surface_select)
MeetsAll(row) == MeetsTransport(row, transport_choice) /\ MeetsOthers(row)

\* The facilities meeting the criteria of the current query, in table order,
\* and those of them within the radius of the reference point.  The distance
\* of a facility is the one the distance calculation gives for it.
Matching == SelectSeq(stadiums, MeetsAll)
DistanceKm(row) ==
    haversine_vectorized(ref.lat, ref.lon, <<row.latitude>>, <<row.longitude>>)[1]
InRadius(row) == Le(DistanceKm(row), Km(radius))
MatchingInRadius == SelectSeq(Matching, InRadius)

Indexes(df) == {df[i].index : i \in 1..Len(df)}
WithoutDistance(row) == [f \in (DOMAIN row) \ {"distance_km"} |-> row[f]]
Annotated(df) == \E i \in 1..Len(df) : "distance_km" \in DOMAIN df[i]
Ranked == "rank" \in calls
Filtered == "filter" \in calls

-----------------------------------------------------------------------------
\* C1: the ranked result is sorted non-decreasing by distance, every entry
\* carries the distance computed for it and that distance is at most the
\* radius, and a matching facility whose distance equals the radius exactly
\* is kept: it is missing from the result only when the limit has cut it off.
C1_SortedWithinRadius ==
    Ranked =>
        /\ \A i \in 1..Len(results) :
               /\ results[i].distance_km = DistanceKm(results[i])
               /\ Le(results[i].distance_km, Km(radius))
        /\ \A i \in 1..(Len(results) - 1) :
               Le(results[i].distance_km, results[i + 1].distance_km)
        /\ \A j \in 1..Len(Matching) :
               (DistanceKm(Matching[j]) = Km(radius)
                   /\ Matching[j].index \notin Indexes(results))
               => Len(results) = max_res

\* A result whose last entry has a computed distance equal to the radius
\* (10.0 for radius 10), with an entry before it, while another matching
\* facility lies beyond the radius.
C1_Witness ==
    /\ Ranked
    /\ Len(results) >= 2
    /\ Lt(results[1].distance_km, results[Len(results)].distance_km)
    /\ results[Len(results)].distance_km = Km(radius)
    /\ \E j \in 1..Len(Matching) : Lt(Km(radius), DistanceKm(Matching[j]))

\* C2: the result holds exactly min(limit, m) entries, m being the number of
\* matching facilities within the radius; every entry is one of these (each at
\* most once); and every one of these left out is at least as far as every
\* entry.
C2_NearestOnly ==
    Ranked =>
        /\ Len(results) = Min(max_res, Len(MatchingInRadius))
        /\ \A i \in 1..Len(results) :
               \E j \in 1..Len(MatchingInRadius) :
                   WithoutDistance(results[i]) = MatchingInRadius[j]
        /\ Cardinality(Indexes(results)) = Len(results)
        /\ \A j \in 1..Len(MatchingInRadius) :
               MatchingInRadius[j].index \notin Indexes(results)
               => \A i \in 1..Len(results) :
                      Le(results[i].distance_km, DistanceKm(MatchingInRadius[j]))

\* The limit cuts off a farther facility, and the type filter has removed one.
C2_Witness ==
    /\ Ranked
    /\ Len(MatchingInRadius) > max_res
    /\ Len(results) = max_res
    /\ Len(Matching) < Len(stadiums)
    /\ \E j \in 1..Len(MatchingInRadius) :
           /\ MatchingInRadius[j].index \notin Indexes(results)
           /\ Lt(results[Len(results)].distance_km, DistanceKm(MatchingInRadius[j]))

\* C7: facilities at equal distance appear in the result in table order, and
\* when the limit cuts through a group of ties the ones kept come first in
\* the table.
C7_StableTies ==
    Ranked =>
        /\ \A i, j \in 1..Len(results) :
               (i < j /\ results[i].distance_km = results[j].distance_km)
               => results[i].index < results[j].index
        /\ \A j \in 1..Len(MatchingInRadius) :
               MatchingInRadius[j].index \notin Indexes(results)
               => \A i \in 1..Len(results) :
                      results[i].distance_km = DistanceKm(MatchingInRadius[j])
                      => results[i].index < MatchingInRadius[j].index

-----------------------------------------------------------------------------
FilterWith(cs) ==
    apply_selection_filters(stadiums,
        IF "transport" \in cs THEN transport_choice ELSE NoPref,
        IF "type" \in cs THEN type_choice ELSE NoPref,
        IF "nature" \in cs THEN nature_choice ELSE NoPref,
        IF "surface" \in cs THEN surface_choice_of(surface_select)
                            ELSE surface_choice_of({}),
        IF "activity" \in cs THEN activity_choice ELSE NoPref).dataset_filtered
Criteria == {"transport", "type", "nature", "surface", "activity"}
IsSubtable(df) ==
    /\ \A i \in 1..Len(df) : \E j \in 1..Len(stadiums) : df[i] = stadiums[j]
    /\ \A i \in 1..(Len(df) - 1) : df[i].index < df[i + 1].index
PassesTransport(row) == row.index \in Indexes(FilterWith({"transport"}))

\* C3: the filter returns exactly the facilities that pass the transport
\* filter and meet the type, the environment and the activity set by
\* equality and the surfaces selected by membership, in table order (for the
\* transport options of the application: exactly those whose transport text
\* contains the option); and filtering by two criteria at once gives the
\* intersection of the two single-criterion results.
C3_FilterIsIntersection ==
    Filtered =>
        /\ df_filtered = SelectSeq(stadiums,
                             LAMBDA row : PassesTransport(row) /\ MeetsOthers(row))
        /\ transport_choice \in TransportOptions => df_filtered = Matching
        /\ \A a, b \in Criteria :
               /\ IsSubtable(FilterWith({a, b}))
               /\ Indexes(FilterWith({a, b}))
                      = Indexes(FilterWith({a})) \cap Indexes(FilterWith({b}))

\* One surface is selected and the facility with another surface is
\* excluded by it; the transport option set excludes the other facility, and
\* nothing is left.
C3_Witness ==
    /\ Filtered
    /\ Len(stadiums) = 2
    /\ Cardinality(surface_select) = 1
    /\ \A i \in 1..2 : stadiums[i].equip_sol # NaN
    /\ Len(FilterWith({"surface"})) = 1
    /\ transport_choice \in TransportOptions \ {NoPref}
    /\ Len(FilterWith({"transport"})) = 1
    /\ df_filtered = <<>>

\* C4: with the five criteria at "No preference" the filter returns the whole
\* table, same rows, same order.
C4_NoPreferenceIsIdentity ==
    (/\ Filtered
     /\ transport_choice = NoPref /\ type_choice = NoPref /\ nature_choice = NoPref
     /\ activity_choice = NoPref /\ surface_select = {})
    => df_filtered = stadiums

C4_Witness ==
    /\ Filtered
    /\ transport_choice = NoPref /\ type_choice = NoPref /\ nature_choice = NoPref
    /\ activity_choice = NoPref /\ surface_select = {}
    /\ Len(df_filtered) = 2
    /\ df_filtered[1] # df_filtered[2]
    /\ df_filtered[1].inst_trans_type = NaN

\* C8: with a transport criterion set, whatever its text, a facility passes
\* the transport filter exactly when its transport cell is present and its
\* text contains the criterion as a literal substring; a facility with a
\* missing cell never passes: it is dropped by the filter, which goes on to
\* its result.
C8_TransportContainment ==
    (Filtered /\ transport_choice # NoPref) =>
        /\ \A i \in 1..Len(stadiums) :
               (stadiums[i].index \in Indexes(FilterWith({"transport"})))
               <=> (/\ stadiums[i].inst_trans_type # NaN
                    /\ IsSubstring(Chars(transport_choice),
                                   Chars(stadiums[i].inst_trans_type)))
        /\ \A i \in 1..Len(df_filtered) :
               /\ df_filtered[i].inst_trans_type # NaN
               /\ IsSubstring(Chars(transport_choice),
                              Chars(df_filtered[i].inst_trans_type))
        /\ \A i \in 1..Len(stadiums) :
               stadiums[i].inst_trans_type = NaN
               => stadiums[i].index \notin Indexes(df_filtered)

-----------------------------------------------------------------------------
Outcomes == {"no_criteria_match", "out_of_radius", "results"}

\* C5 as stated: every search with a resolved reference point shows exactly
\* one of three outcomes: no_criteria_match exactly when no facility meets
\* the criteria (no distance is computed then), out_of_radius exactly when
\* some do and none of them is within the radius, a non-empty result
\* otherwise.
C5_ThreeOutcomes ==
    /\ (ref.found <=> Filtered)
    /\ (message \in Outcomes <=> Filtered)
    /\ Filtered =>
          /\ (message = "no_criteria_match" <=> Matching = <<>>)
          /\ message = "no_criteria_match"
                => (~Ranked /\ "haversine" \notin calls /\ results = <<>>)
          /\ (message = "out_of_radius"
                <=> (Matching # <<>> /\ MatchingInRadius = <<>>))
          /\ message = "out_of_radius" => (Ranked /\ results = <<>>)
          /\ (message = "results" <=> MatchingInRadius # <<>>)
          /\ message = "results" => (Ranked /\ results # <<>>)

\* C5 as amended: a search with a resolved reference point computes, in this
\* order, the filtered set and, when that is not empty, the distances and the
\* ranked result, which is empty exactly when no filtered facility is within
\* the radius.  It shows nothing but one of the three outcomes, the one so
\* decided, and it shows it unless its run is abandoned at the very call that
\* would show it; only a search whose run is abandoned shows none.  A
\* non-empty result is on the screen with its map once the run has reached
\* its end.  No other run shows any of the three.
C5_OutcomeUnlessAbandonedBefore ==
    /\ (ref.found <=> Filtered)
    /\ message \in Outcomes => Filtered
    /\ Filtered =>
          /\ message \in Outcomes \cup {"interrupted"}
          /\ message = "interrupted" => abandoned
          /\ Matching = <<>> => (~Ranked /\ "haversine" \notin calls /\ results = <<>>)
          /\ Matching # <<>> => (Ranked /\ "haversine" \in calls)
          /\ Ranked => (results = <<>> <=> MatchingInRadius = <<>>)
          /\ message # "interrupted" =>
                /\ (message = "no_criteria_match" <=> Matching = <<>>)
                /\ (message = "out_of_radius"
                      <=> (Matching # <<>> /\ MatchingInRadius = <<>>))
                /\ (message = "results" <=> MatchingInRadius # <<>>)
          /\ (message = "results" /\ ~abandoned) => map_shown

\* A search whose run was abandoned after it had shown that a facility meets
\* the criteria but none lies within the radius.
C5_Witness ==
    /\ message = "out_of_radius"
    /\ abandoned
    /\ Len(Matching) >= 1
    /\ Len(Matching) < Len(stadiums)
    /\ max_res = MinResults

\* C9: no search changes the loaded table: same rows, same fields, same
\* order, and never a distance column.
C9_TableUntouched ==
    /\ [](~Annotated(stadiums))
    /\ [][stadiums' = stadiums]_vars

\* A search that filtered rows out and annotated the rest.
C9_Witness ==
    /\ Ranked
    /\ Len(df_filtered) < Len(stadiums)
    /\ results # <<>>
    /\ Annotated(results)
    /\ ~Annotated(stadiums)
    /\ ~Annotated(df_filtered)

\* C10 as stated: a search (geocoding, filtering, ranking) is executed only
\* in a run in which the Search button was pressed.
C10_SearchOnlyOnClick ==
    [][("geocode" \in calls') => search_btn']_vars

\* C10 as amended.  A run searches only when the address is not empty and
\* either the button was pressed in that run or the session flag
\* search_performed was left set by the run before; every such run searches
\* unless it is abandoned before it has shown anything.  The flag is set only
\* by a click; it is cleared only by a run that finds the address empty and
\* shows the warning; it is set after every run that searched; and after a
\* run that is not abandoned it is set exactly when that run searched.  What
\* a run filters is decided by the widget values of that run alone.
C10_SearchWhileFlagSet ==
    [][/\ ("geocode" \in calls')
           => ((search_btn' \/ search_performed) /\ address_input' # "")
       /\ ((search_btn' \/ search_performed) /\ address_input' # "")
           => (("geocode" \in calls') \/ (abandoned' /\ message' = "interrupted"))
       /\ search_performed' => (search_btn' \/ search_performed)
       /\ (search_performed /\ ~search_performed')
           => (address_input' = "" /\ message' = "enter_address")
       /\ ("geocode" \in calls') => search_performed'
       /\ ~abandoned' =>
             (search_performed' <=> ("geocode" \in calls'))
       /\ ("filter" \in calls') => df_filtered' = Matching']_vars

\* A run without a click, after a criterion was changed, that searched again
\* and shows the facilities meeting the new criterion.
C10_Witness ==
    /\ ~search_btn
    /\ "geocode" \in calls
    /\ message = "results"
    /\ ~abandoned
    /\ transport_choice # NoPref
    /\ Len(df_filtered) < Len(stadiums)

====
